---- MODULE Spec2Model ----
(***************************************************************************)
(* NanoBananaTool (amplifier_module_tool_nano_banana/tool.py): one call of *)
(* execute() on an adapter constructed from a configuration and the        *)
(* process environment.  The coroutine is cut at its interactions with     *)
(* the outside world: the awaited hook emissions, the reads of the input   *)
(* images, the remote generate_content call and the writes of generated    *)
(* images.  Each interaction has every outcome the callee can produce      *)
(* (return or raise).                                                      *)
(*                                                                         *)
(* Python values are tagged records: None, Str(s), IntV(i).  A string is   *)
(* a sequence of tokens (a token stands for a run of characters), so that  *)
(* "message contains the field name" and "insert _k before the extension"  *)
(* are computed on the text and not assumed.                               *)
(***************************************************************************)
EXTENDS Integers, Sequences, FiniteSets, TLC

VARIABLES config, env, api_key, working_dir, model,
          pc, input_data, result, effects, error_msg,
          response, part_i, generated_paths,
          current, frames

vars == <<config, env, api_key, working_dir, model,
          pc, input_data, result, effects, error_msg,
          response, part_i, generated_paths,
          current, frames>>

(* ------------------------------ bounds --------------------------------- *)
\* longest list of parts in a provider response
MaxParts == 3
\* number_of_images values tried: -1..MaxTried, plus absent, plus a non-integer
MaxTried == 5
\* invocations of execute in flight on the one adapter
NumCalls == 2

(* --------------------------- Python values ----------------------------- *)
None == [t |-> "None"]
Str(s) == [t |-> "str", s |-> s]
IntV(i) == [t |-> "int", i |-> i]

\* Python truthiness, as used by `not x` and `x or y`
Truthy(v) ==
  CASE v.t = "None" -> FALSE
    [] v.t = "str" -> v.s # <<>>
    [] v.t = "int" -> v.i # 0
    [] OTHER -> TRUE

\* Python `a or b`
PyOr(a, b) == IF Truthy(a) THEN a ELSE b

\* Python `sub in text` for a one-token sub
Contains(text, tok) == \E i \in 1..Len(text) : text[i] = tok

\* str(i) for the small integers that occur
Digit(i) ==
  CASE i = 0 -> "0" [] i = 1 -> "1" [] i = 2 -> "2" [] i = 3 -> "3"
    [] i = 4 -> "4" [] i = 5 -> "5" [] i = 6 -> "6" [] OTHER -> "N"

\* input_data.get(key): a missing key is held as None in the record
Get(d, key) == d[key]

\* input_data.get(key, default)
GetDefault(d, key, default) == IF d[key] = None THEN default ELSE d[key]

(* ------------------------------- paths --------------------------------- *)
HomeDir == <<"/", "home", "/", "u">>
WorkDir == <<"/", "work">>
ModelName == <<"gemini-3-pro-image-preview">>

\* Path.expanduser(): a leading "~" component becomes the home directory
expanduser(p) ==
  IF Len(p) >= 1 /\ p[1] = "~" /\ (Len(p) = 1 \/ p[2] = "/")
  THEN HomeDir \o SubSeq(p, 2, Len(p))
  ELSE p

\* Path.is_absolute() on a POSIX path
is_absolute(p) == Len(p) >= 1 /\ p[1] = "/"

\* Path(a) / b for a relative b
JoinPath(a, b) ==
  IF a # <<>> /\ a[Len(a)] = "/" THEN a \o b ELSE a \o <<"/">> \o b

\* (a join under working_dir that does not look at is_absolute)
_resolve_path_AlwaysJoins(path_str) ==
  LET path == expanduser(path_str)
  IN  IF Truthy(working_dir) THEN JoinPath(working_dir.s, path) ELSE path

_resolve_path(path_str) ==
  LET path == expanduser(path_str)
  IN  IF ~is_absolute(path) /\ Truthy(working_dir)
      THEN JoinPath(working_dir.s, path)
      ELSE path

\* index of the last occurrence of tok in p, 0 when there is none
LastIndexOf(p, tok) ==
  IF \E i \in 1..Len(p) : p[i] = tok
  THEN CHOOSE i \in 1..Len(p) : p[i] = tok /\ \A j \in (i+1)..Len(p) : p[j] # tok
  ELSE 0

\* Path.name: the final component
PathName(p) == SubSeq(p, LastIndexOf(p, "/") + 1, Len(p))

\* Path.parent, kept with its trailing separator ("" for a bare name)
PathParentPrefix(p) == SubSeq(p, 1, LastIndexOf(p, "/"))

\* Path.suffix: from the last dot of the name, unless the dot leads or ends it
PathSuffix(p) ==
  LET name == PathName(p)
      i == LastIndexOf(name, ".")
  IN  IF 1 < i /\ i < Len(name) THEN SubSeq(name, i, Len(name)) ELSE <<>>

\* Path.stem: the name without its suffix
PathStem(p) ==
  LET name == PathName(p)
  IN  SubSeq(name, 1, Len(name) - Len(PathSuffix(p)))

\* mimetypes.guess_type on the extension, "image/png" when unknown
_get_mime_type(file_path) ==
  LET suffix == PathSuffix(file_path)
  IN  CASE suffix = <<".", "png">> -> "image/png"
        [] suffix = <<".", "jpg">> -> "image/jpeg"
        [] suffix = <<".", "jpeg">> -> "image/jpeg"
        [] OTHER -> "image/png"

(* ------------------------------ messages ------------------------------- *)
ApiKeyMsg ==
  <<"GOOGLE_API_KEY", "environment variable not set.",
    "Get your API key from: https://aistudio.google.com/apikey">>
ImagePathMsg == <<"image_path", "required for analyze operation">>
ComparePathsMsg ==
  <<"image1_path", "and", "image2_path", "required for compare operation">>
OutputPathMsg == <<"output_path", "required for generate operation">>
NumberOfImagesMsg == <<"number_of_images", "must be between 1 and 4">>
NoImagesMsg == <<"No images were generated by the model">>

\* str(operation) inside the f-string
OperationText(operation) ==
  IF operation.t = "str" THEN operation.s ELSE <<"None">>

UnknownOperationMsg(operation) ==
  <<"Unknown operation:">> \o OperationText(operation)
    \o <<". Use 'analyze', 'compare', or 'generate'">>

NotFoundMsg(e) == <<"Image file not found:">> \o e.text
RequestFailedMsg(e) == <<"VLM request failed:">> \o e.text

(* ----------------------------- exceptions ------------------------------ *)
Exc(cls, text) == [cls |-> cls, text |-> text]
FileNotFoundErrorOf(path) ==
  Exc("FileNotFoundError", <<"[Errno 2] No such file or directory:">> \o path)
PermissionErrorOf(path) ==
  Exc("PermissionError", <<"[Errno 13] Permission denied:">> \o path)
TypeErrorCompare ==
  Exc("TypeError", <<"'<' not supported between instances of 'str' and 'int'">>)
SinkError == Exc("RuntimeError", <<"hook sink unavailable">>)
RemoteError == Exc("ServerError", <<"503 UNAVAILABLE">>)

\* the except clause that catches e: FileNotFoundError first, then Exception
HandlerMsg(e) ==
  IF e.cls = "FileNotFoundError" THEN NotFoundMsg(e) ELSE RequestFailedMsg(e)

(* ------------------------------ results -------------------------------- *)
Pending == [kind |-> "pending"]
ToolResult(success, output, error) ==
  [kind |-> "ToolResult", success |-> success, output |-> output, error |-> error]
Raised(e) == [kind |-> "raised", exc |-> e]

ErrorDict(msg) == [t |-> "dict", message |-> msg]

\* (a failure result built without its error payload)
Fail_NoError(msg) == ToolResult(FALSE, Str(msg), None)

\* ToolResult(success=False, output=error_msg, error={"message": error_msg})
Fail(msg) == ToolResult(FALSE, Str(msg), ErrorDict(msg))

(* ------------------------ requests and responses ----------------------- *)
RelPng == <<"a", ".", "png">>
AbsPng == <<"/", "abs", "/", "a", ".", "png">>
HomeJpg == <<"~", "/", "b", ".", "jpg">>
OutPng == <<"out", "/", "pic", ".", "png">>
OutBare == <<"pic">>

NumberValues ==
  {None, IntV(0 - 1), Str(<<"2">>)} \cup {IntV(i) : i \in 0..MaxTried}

EmptyInput ==
  [operation |-> None, prompt |-> None, image_path |-> None,
   image1_path |-> None, image2_path |-> None,
   image1_label |-> None, image2_label |-> None, output_path |-> None,
   number_of_images |-> None]

FullInput ==
  [operation |-> None, prompt |-> Str(<<"h", "i">>), image_path |-> Str(RelPng),
   image1_path |-> Str(AbsPng), image2_path |-> Str(HomeJpg),
   image1_label |-> Str(<<"MOCKUP">>), image2_label |-> Str(<<"BUILD">>),
   output_path |-> Str(OutPng), number_of_images |-> IntV(2)]

\* the fields an operation does not read are all missing or all present
Bases == {EmptyInput, FullInput}
Prompts == {None, Str(<<"h", "i">>)}

AnalyzeInputs ==
  { [b EXCEPT !.operation = Str(<<"analyze">>), !.prompt = p, !.image_path = ip] :
      b \in Bases, p \in Prompts, ip \in {None, Str(<<>>), Str(RelPng)} }

CompareInputs ==
  { [b EXCEPT !.operation = Str(<<"compare">>), !.prompt = p,
              !.image1_path = i1, !.image2_path = i2] :
      b \in Bases, p \in Prompts,
      i1 \in {None, Str(<<>>), Str(AbsPng)},
      i2 \in {None, Str(<<>>), Str(HomeJpg)} }

GenerateInputs ==
  { [b EXCEPT !.operation = Str(<<"generate">>), !.prompt = p,
              !.output_path = o, !.number_of_images = n] :
      b \in Bases, p \in Prompts,
      o \in {None, Str(<<>>), Str(OutPng), Str(OutBare)},
      n \in NumberValues }

OtherInputs ==
  { [b EXCEPT !.operation = op, !.prompt = p] :
      b \in Bases, p \in Prompts, op \in {None, Str(<<"resize">>)} }

\* the input mappings tried; a field held as None is a missing key
Inputs == AnalyzeInputs \cup CompareInputs \cup GenerateInputs \cup OtherInputs

\* a part of a generate response: inline image data or text
ImagePart(i) == [inline_data |-> [data |-> i], text |-> None]
TextPart(i) == [inline_data |-> None, text |-> Str(<<"caption", Digit(i)>>)]

PartsOfLen(n) ==
  { [i \in 1..n |-> IF k[i] = "img" THEN ImagePart(i) ELSE TextPart(i)] :
      k \in [1..n -> {"img", "txt"}] }

\* the responses generate_content may return
Responses ==
  { [text |-> <<"looks", "fine">>, parts |-> ps] :
      ps \in UNION { PartsOfLen(n) : n \in 0..MaxParts } }

NoResponse == [text |-> <<>>, parts |-> <<>>]

(* ------------------------- execute: the checks ------------------------- *)
\* `if not self.api_key`
HasApiKey == Truthy(api_key)

\* `if not image_path_str`
AnalyzeRejects(d) == ~Truthy(Get(d, "image_path"))

\* (`and` in place of `or`)
CompareRejects_And(d) ==
  ~Truthy(Get(d, "image1_path")) /\ ~Truthy(Get(d, "image2_path"))

\* `if not image1_path_str or not image2_path_str`
CompareRejects(d) ==
  ~Truthy(Get(d, "image1_path")) \/ ~Truthy(Get(d, "image2_path"))

\* `if not output_path_str`
GenerateRejectsOutput(d) == ~Truthy(Get(d, "output_path"))

\* (an upper limit that excludes 4)
NumberOutOfRange_OffByOne(n) == n < 1 \/ n >= 4

\* `if number_of_images < 1 or number_of_images > 4`, on an integer
NumberOutOfRange(n) == n < 1 \/ n > 4

\* prompt = input_data.get("prompt", ""); len(prompt)
PromptLength(d) == Len(GetDefault(d, "prompt", Str(<<>>)).s)

\* the pre-call notification of each operation
AnalyzeEvent(d) ==
  [event |-> "tool.vlm.analyze",
   payload |-> [image_path |-> _resolve_path(Get(d, "image_path").s),
                model |-> model,
                prompt_length |-> PromptLength(d)]]

CompareEvent(d) ==
  [event |-> "tool.vlm.compare",
   payload |-> [image1_path |-> _resolve_path(Get(d, "image1_path").s),
                image2_path |-> _resolve_path(Get(d, "image2_path").s),
                model |-> model,
                prompt_length |-> PromptLength(d)]]

GenerateEvent(d) ==
  [event |-> "tool.vlm.generate",
   payload |-> [output_path |-> _resolve_path(Get(d, "output_path").s),
                model |-> model,
                prompt_length |-> PromptLength(d),
                number_of_images |-> GetDefault(d, "number_of_images", IntV(1)).i]]

ErrorEvent(d, msg) ==
  [event |-> "tool.vlm.error",
   payload |-> [error |-> msg, operation |-> Get(d, "operation")]]

\* outcomes of the synchronous prefix of execute
Returns(r) == [next |-> "done", result |-> r, error_msg |-> <<>>]
Awaits == [next |-> "emit_pre", result |-> Pending, error_msg |-> <<>>]
Raises(e) == [next |-> "emit_err", result |-> Pending, error_msg |-> HandlerMsg(e)]

AnalyzePrefix(d) ==
  IF AnalyzeRejects(d) THEN Returns(Fail(ImagePathMsg)) ELSE Awaits

ComparePrefix(d) ==
  IF CompareRejects(d) THEN Returns(Fail(ComparePathsMsg)) ELSE Awaits

\* (the range check raising inside the try instead of returning)
GeneratePrefix_RaiseOnRange(d) ==
  LET number_of_images == GetDefault(d, "number_of_images", IntV(1))
  IN  IF GenerateRejectsOutput(d) THEN Returns(Fail(OutputPathMsg))
      ELSE IF number_of_images.t # "int" THEN Raises(TypeErrorCompare)
      ELSE IF number_of_images.i < 1 \/ number_of_images.i > 4
           THEN Raises(Exc("ValueError", NumberOfImagesMsg))
      ELSE Awaits

GeneratePrefix(d) ==
  LET number_of_images == GetDefault(d, "number_of_images", IntV(1))
  IN  IF GenerateRejectsOutput(d) THEN Returns(Fail(OutputPathMsg))
      ELSE IF number_of_images.t # "int" THEN Raises(TypeErrorCompare)
      ELSE IF NumberOutOfRange(number_of_images.i)
           THEN Returns(Fail(NumberOfImagesMsg))
      ELSE Awaits

\* (a gate that is only reached after dispatch and validation)
ExecutePrefix_GateLast(d) ==
  LET operation == Get(d, "operation")
      checked ==
        IF operation = Str(<<"analyze">>) THEN AnalyzePrefix(d)
        ELSE IF operation = Str(<<"compare">>) THEN ComparePrefix(d)
        ELSE IF operation = Str(<<"generate">>) THEN GeneratePrefix(d)
        ELSE Returns(Fail(UnknownOperationMsg(operation)))
  IN  IF checked.next = "emit_pre" /\ ~HasApiKey
      THEN Returns(Fail(ApiKeyMsg))
      ELSE checked

\* execute from its entry to the first return, await or raise
ExecutePrefix(d) ==
  LET operation == Get(d, "operation")
  IN  IF ~HasApiKey THEN Returns(Fail(ApiKeyMsg))
      ELSE IF operation = Str(<<"analyze">>) THEN AnalyzePrefix(d)
      ELSE IF operation = Str(<<"compare">>) THEN ComparePrefix(d)
      ELSE IF operation = Str(<<"generate">>) THEN GeneratePrefix(d)
      ELSE Returns(Fail(UnknownOperationMsg(operation)))

PreCallEvent(d) ==
  LET operation == Get(d, "operation")
  IN  IF operation = Str(<<"analyze">>) THEN AnalyzeEvent(d)
      ELSE IF operation = Str(<<"compare">>) THEN CompareEvent(d)
      ELSE GenerateEvent(d)

(* -------------------------- execute: the steps ------------------------- *)
Emit(ev, ok) ==
  [kind |-> "emit", event |-> ev.event, payload |-> ev.payload, ok |-> ok]
Read(path, ok) == [kind |-> "read", path |-> path, ok |-> ok]
Remote(contents, ok) ==
  [kind |-> "remote", model |-> model, contents |-> contents, ok |-> ok]
Write(path, data, ok) == [kind |-> "write", path |-> path, data |-> data, ok |-> ok]

IsOp(d, name) == Get(d, "operation") = Str(<<name>>)

\* the contents handed to generate_content
InlineData(path) ==
  [inline_data |-> [mime_type |-> _get_mime_type(path), data |-> path]]
Label(d, key, default) ==
  [text |-> <<"^">> \o GetDefault(d, key, Str(default)).s]

Contents(d) ==
  LET prompt == [text |-> GetDefault(d, "prompt", Str(<<>>)).s]
  IN  IF IsOp(d, "analyze")
      THEN <<prompt, InlineData(_resolve_path(Get(d, "image_path").s))>>
      ELSE IF IsOp(d, "compare")
      THEN <<prompt,
             InlineData(_resolve_path(Get(d, "image1_path").s)),
             Label(d, "image1_label", <<"IMAGE 1">>),
             InlineData(_resolve_path(Get(d, "image2_path").s)),
             Label(d, "image2_label", <<"IMAGE 2">>)>>
      ELSE <<prompt>>

\* the first image part at index >= i, 0 when there is none
NextImagePart(parts, i) ==
  IF \E j \in i..Len(parts) : parts[j].inline_data # None
  THEN CHOOSE j \in i..Len(parts) :
         /\ parts[j].inline_data # None
         /\ \A l \in i..(j-1) : parts[l].inline_data = None
  ELSE 0

\* generate: the path the next image is written to
CurrentOutput(output_path, number_of_images, image_count) ==
  IF number_of_images = 1
  THEN output_path
  ELSE PathParentPrefix(output_path) \o PathStem(output_path)
         \o <<"_", Digit(image_count + 1)>> \o PathSuffix(output_path)

\* (a break that comes one image late)
EnoughImages_Late(image_count, number_of_images) == image_count > number_of_images

\* generate: `if image_count >= number_of_images: break`
EnoughImages(image_count, number_of_images) == image_count >= number_of_images

\* generate: the result once the loop over response.parts has ended
GenerateResult(parts, paths) ==
  IF paths = <<>>
  THEN Fail(NoImagesMsg)
  ELSE IF \E j \in 1..Len(parts) : parts[j].text # None
  THEN ToolResult(TRUE,
         [t |-> "dict", generated_images |-> paths, count |-> Len(paths),
          text |-> parts[CHOOSE j \in 1..Len(parts) :
                           /\ parts[j].text # None
                           /\ \A l \in 1..(j-1) : parts[l].text = None].text],
         None)
  ELSE ToolResult(TRUE,
         [t |-> "dict", generated_images |-> paths, count |-> Len(paths)],
         None)

\* the invocations, and the locals of the running one: every name that
\* execute assigns is a local of its own coroutine frame
Calls == 1..NumCalls

Locals ==
  [pc |-> pc, input_data |-> input_data, result |-> result,
   effects |-> effects, error_msg |-> error_msg, response |-> response,
   part_i |-> part_i, generated_paths |-> generated_paths]

InitialLocals ==
  [pc |-> "idle", input_data |-> EmptyInput, result |-> Pending,
   effects |-> <<>>, error_msg |-> <<>>, response |-> NoResponse,
   part_i |-> 0, generated_paths |-> <<>>]

Init ==
  /\ current = 1
  /\ frames = [c \in Calls |-> InitialLocals]
  /\ config \in [api_key : {None, Str(<<>>), Str(<<"cfg-key">>)},
                 working_dir : {None, Str(WorkDir)}]
  /\ env \in {None, Str(<<"env-key">>)}
  /\ api_key = PyOr(config.api_key, env)
  /\ working_dir = config.working_dir
  /\ model = ModelName
  /\ pc = "idle"
  /\ input_data = EmptyInput
  /\ result = Pending
  /\ effects = <<>>
  /\ error_msg = <<>>
  /\ response = NoResponse
  /\ part_i = 0
  /\ generated_paths = <<>>

unchangedAdapter == UNCHANGED <<config, env, api_key, working_dir, model>>

\* the frames of the invocations that are not running
unchangedOthers == UNCHANGED <<current, frames>>

\* execute is entered: the key gate, dispatch and validation, up to the
\* first return, the first awaited emit, or an exception caught by the try
Execute(d) ==
  /\ pc = "idle"
  /\ input_data' = d
  /\ pc' = ExecutePrefix(d).next
  /\ result' = ExecutePrefix(d).result
  /\ error_msg' = ExecutePrefix(d).error_msg
  /\ UNCHANGED <<effects, response, part_i, generated_paths>>
  /\ unchangedAdapter
  /\ unchangedOthers

\* the awaited pre-call hooks.emit returns (ok) or raises inside the try
EmitPre(ok) ==
  /\ pc = "emit_pre"
  /\ effects' = Append(effects, Emit(PreCallEvent(input_data), ok))
  /\ IF ok
     THEN /\ pc' = IF IsOp(input_data, "generate") THEN "remote" ELSE "read1"
          /\ UNCHANGED error_msg
     ELSE /\ pc' = "emit_err"
          /\ error_msg' = HandlerMsg(SinkError)
  /\ UNCHANGED <<input_data, result, response, part_i, generated_paths>>
  /\ unchangedAdapter
  /\ unchangedOthers

\* the image file the next open() is for
ReadPath ==
  _resolve_path(Get(input_data,
     IF IsOp(input_data, "analyze") THEN "image_path"
     ELSE IF pc = "read1" THEN "image1_path" ELSE "image2_path").s)

\* open(path, "rb") and f.read(): the bytes, FileNotFoundError, or another OSError
ReadImage(outcome) ==
  /\ pc \in {"read1", "read2"}
  /\ effects' = Append(effects, Read(ReadPath, outcome = "ok"))
  /\ CASE outcome = "ok" ->
            /\ pc' = IF IsOp(input_data, "compare") /\ pc = "read1"
                     THEN "read2" ELSE "remote"
            /\ UNCHANGED error_msg
       [] outcome = "missing" ->
            /\ pc' = "emit_err"
            /\ error_msg' = HandlerMsg(FileNotFoundErrorOf(ReadPath))
       [] outcome = "denied" ->
            /\ pc' = "emit_err"
            /\ error_msg' = HandlerMsg(PermissionErrorOf(ReadPath))
  /\ UNCHANGED <<input_data, result, response, part_i, generated_paths>>
  /\ unchangedAdapter
  /\ unchangedOthers

\* (a failed remote call that is issued again)
RemoteCallRaises_Retry ==
  /\ pc = "remote"
  /\ effects' = Append(effects, Remote(Contents(input_data), FALSE))
  /\ UNCHANGED <<pc, error_msg>>
  /\ UNCHANGED <<input_data, result, response, part_i, generated_paths>>
  /\ unchangedAdapter
  /\ unchangedOthers

\* client.models.generate_content raises
RemoteCallRaises ==
  /\ pc = "remote"
  /\ effects' = Append(effects, Remote(Contents(input_data), FALSE))
  /\ pc' = "emit_err"
  /\ error_msg' = HandlerMsg(RemoteError)
  /\ UNCHANGED <<input_data, result, response, part_i, generated_paths>>
  /\ unchangedAdapter
  /\ unchangedOthers

\* client.models.generate_content returns r; analyze and compare return its
\* text, generate walks the parts up to the first image to write
RemoteCallReturns(r) ==
  /\ pc = "remote"
  /\ effects' = Append(effects, Remote(Contents(input_data), TRUE))
  /\ response' = r
  /\ IF IsOp(input_data, "analyze")
     THEN /\ result' = ToolResult(TRUE, [t |-> "dict", analysis |-> r.text], None)
          /\ pc' = "done"
          /\ UNCHANGED part_i
     ELSE IF IsOp(input_data, "compare")
     THEN /\ result' = ToolResult(TRUE, [t |-> "dict", comparison |-> r.text], None)
          /\ pc' = "done"
          /\ UNCHANGED part_i
     ELSE IF NextImagePart(r.parts, 1) = 0
     THEN /\ result' = GenerateResult(r.parts, <<>>)
          /\ pc' = "done"
          /\ UNCHANGED part_i
     ELSE /\ pc' = "write"
          /\ part_i' = NextImagePart(r.parts, 1)
          /\ UNCHANGED result
  /\ UNCHANGED <<input_data, error_msg, generated_paths>>
  /\ unchangedAdapter
  /\ unchangedOthers

\* generate: mkdir of the parent and open(current_output, "wb") for the
\* image part at part_i; on success the loop runs on to the next image part,
\* to the break, or to the end of the parts and the return
WriteImage(ok) ==
  LET number_of_images == GetDefault(input_data, "number_of_images", IntV(1)).i
      output_path == _resolve_path(Get(input_data, "output_path").s)
      image_count == Len(generated_paths)
      current_output == CurrentOutput(output_path, number_of_images, image_count)
      paths == Append(generated_paths, current_output)
      next_i == NextImagePart(response.parts, part_i + 1)
  IN  /\ pc = "write"
      /\ effects' = Append(effects,
                      Write(current_output, response.parts[part_i].inline_data.data, ok))
      /\ IF ~ok
         THEN /\ pc' = "emit_err"
              /\ error_msg' = HandlerMsg(PermissionErrorOf(current_output))
              /\ UNCHANGED <<result, part_i, generated_paths>>
         ELSE /\ generated_paths' = paths
              /\ UNCHANGED error_msg
              /\ IF EnoughImages(image_count + 1, number_of_images) \/ next_i = 0
                 THEN /\ result' = GenerateResult(response.parts, paths)
                      /\ pc' = "done"
                      /\ UNCHANGED part_i
                 ELSE /\ part_i' = next_i
                      /\ UNCHANGED <<pc, result>>
      /\ UNCHANGED <<input_data, response>>
      /\ unchangedAdapter
      /\ unchangedOthers

\* an except clause: the awaited emit of tool.vlm.error returns, and the
\* failure result is returned, or raises, and the exception leaves execute
EmitError(ok) ==
  /\ pc = "emit_err"
  /\ effects' = Append(effects, Emit(ErrorEvent(input_data, error_msg), ok))
  /\ result' = IF ok THEN Fail(error_msg) ELSE Raised(SinkError)
  /\ pc' = "done"
  /\ UNCHANGED <<input_data, error_msg, response, part_i, generated_paths>>
  /\ unchangedAdapter
  /\ unchangedOthers

\* (error_msg kept on the adapter instead of in the frame: an invocation
\* that resumes finds the message the last running one left)
Switch_SharedErrorMsg(c) ==
  /\ pc \in {"idle", "emit_pre", "emit_err", "done"}
  /\ c # current
  /\ frames' = [frames EXCEPT ![current] = Locals]
  /\ current' = c
  /\ pc' = frames[c].pc
  /\ input_data' = frames[c].input_data
  /\ result' = frames[c].result
  /\ effects' = frames[c].effects
  /\ UNCHANGED error_msg
  /\ response' = frames[c].response
  /\ part_i' = frames[c].part_i
  /\ generated_paths' = frames[c].generated_paths
  /\ unchangedAdapter

\* the event loop runs another invocation: the running one is not started,
\* has returned, or is suspended in an awaited hooks.emit; its locals stay
\* in its frame and invocation c goes on with its own
Switch(c) ==
  /\ pc \in {"idle", "emit_pre", "emit_err", "done"}
  /\ c # current
  /\ frames' = [frames EXCEPT ![current] = Locals]
  /\ current' = c
  /\ pc' = frames[c].pc
  /\ input_data' = frames[c].input_data
  /\ result' = frames[c].result
  /\ effects' = frames[c].effects
  /\ error_msg' = frames[c].error_msg
  /\ response' = frames[c].response
  /\ part_i' = frames[c].part_i
  /\ generated_paths' = frames[c].generated_paths
  /\ unchangedAdapter

Next ==
  \/ \E d \in Inputs : Execute(d)
  \/ \E ok \in BOOLEAN : EmitPre(ok)
  \/ \E outcome \in {"ok", "missing", "denied"} : ReadImage(outcome)
  \/ RemoteCallRaises
  \/ \E r \in Responses : RemoteCallReturns(r)
  \/ \E ok \in BOOLEAN : WriteImage(ok)
  \/ \E ok \in BOOLEAN : EmitError(ok)

Spec == Init /\ [][Next]_vars

(* ------------------- several invocations in flight --------------------- *)
\* the requests and provider responses tried with several invocations
ConcInputs ==
  { [EmptyInput EXCEPT !.operation = Str(<<"analyze">>), !.image_path = Str(RelPng)],
    [EmptyInput EXCEPT !.operation = Str(<<"compare">>), !.image1_path = Str(AbsPng)],
    [FullInput EXCEPT !.operation = Str(<<"generate">>)] }

ConcResponses ==
  { [text |-> <<"looks", "fine">>, parts |-> ps] :
      ps \in { <<>>, <<TextPart(1), ImagePart(2)>> } }

InitConc ==
  /\ Init
  /\ env = None
  /\ config.working_dir = Str(WorkDir)

NextConc ==
  \/ \E d \in ConcInputs : Execute(d)
  \/ \E ok \in BOOLEAN : EmitPre(ok)
  \/ \E outcome \in {"ok", "missing", "denied"} : ReadImage(outcome)
  \/ RemoteCallRaises
  \/ \E r \in ConcResponses : RemoteCallReturns(r)
  \/ \E ok \in BOOLEAN : WriteImage(ok)
  \/ \E ok \in BOOLEAN : EmitError(ok)
  \/ \E c \in Calls : Switch(c)

SpecConc == InitConc /\ [][NextConc]_vars


(* ======================= properties of execute ========================= *)
Returned == pc = "done" /\ result.kind = "ToolResult"
Failed == Returned /\ ~result.success
FailedWith(msg) == Failed /\ result.output = Str(msg)
FailureNames(field) == Failed /\ Contains(result.output.s, field)

EffectsOfKind(kind) == SelectSeq(effects, LAMBDA e : e.kind = kind)
Emitted(event) ==
  \E i \in 1..Len(effects) : effects[i].kind = "emit" /\ effects[i].event = event
SinkFailed ==
  \E i \in 1..Len(effects) : effects[i].kind = "emit" /\ ~effects[i].ok
StartsWith(text, tok) == Len(text) >= 1 /\ text[1] = tok

\* the request, as the caller sees it
Op(name) == input_data.operation = Str(<<name>>)
Present(field) == Truthy(input_data[field])
KeyAvailable == Truthy(config.api_key) \/ Truthy(env)
RequestedNumber ==
  IF input_data.number_of_images = None THEN 1 ELSE input_data.number_of_images.i
NumberIsInteger == input_data.number_of_images.t \in {"None", "int"}

\* C1: execute never lets an exception escape: whatever the input mapping
\* and whatever the reads, the writes and the remote call do, the call ends
\* with a ToolResult and not with an exception.
C1_NeverRaises == pc = "done" => result.kind = "ToolResult"

\* C2: hook emission is fire-and-forget: when the host's emit raises, execute
\* still returns a ToolResult, the failure of the error notification leaves
\* the result the failure it was reporting, and no returned failure carries
\* the sink's own exception (a result no run with a working sink returns).
C2_SinkFailureHarmless ==
  (pc = "done" /\ SinkFailed) =>
     /\ result.kind = "ToolResult"
     /\ ~result.success => ~Contains(result.output.s, SinkError.text[1])
     /\ ~effects[Len(effects)].ok => result = Fail(error_msg)

\* C3: with no API key in the configuration and none in the environment,
\* every request ends at once in a failure whose message contains
\* GOOGLE_API_KEY, with no file read, no file write, no remote call and no
\* hook emission, and never with a validation message.
C3_ApiKeyGate ==
  (~KeyAvailable /\ pc # "idle") =>
     /\ FailureNames("GOOGLE_API_KEY")
     /\ effects = <<>>
     /\ result.output.s \notin {ImagePathMsg, ComparePathsMsg, OutputPathMsg,
                                NumberOfImagesMsg,
                                UnknownOperationMsg(input_data.operation)}

C3_Witness ==
  /\ ~KeyAvailable /\ pc = "done"
  /\ Op("compare") /\ Present("image1_path") /\ ~Present("image2_path")
  /\ FailureNames("GOOGLE_API_KEY")

\* C4: in every ToolResult that execute returns, success is false exactly
\* when error is populated; on failure output is the string error.message,
\* on success error is absent and output is a mapping.
C4_ResultShape ==
  Returned =>
     /\ (~result.success) <=> (result.error # None)
     /\ ~result.success =>
          /\ result.output.t = "str"
          /\ result.error.t = "dict"
          /\ result.error.message = result.output.s
     /\ result.success => result.output.t = "dict"

C4_Witness ==
  /\ Failed /\ Emitted("tool.vlm.error")
  /\ result.error.message = result.output.s
  /\ StartsWith(result.output.s, "Image file not found:")

\* the requests that validation rejects, read off the request itself
MissingRequired ==
  \/ Op("analyze") /\ ~Present("image_path")
  \/ Op("compare") /\ (~Present("image1_path") \/ ~Present("image2_path"))
  \/ Op("generate") /\ ~Present("output_path")
NumberRejected ==
  /\ Op("generate") /\ Present("output_path")
  /\ input_data.number_of_images.t = "int"
  /\ (RequestedNumber < 1 \/ RequestedNumber > 4)
UnknownOperation == ~(Op("analyze") \/ Op("compare") \/ Op("generate"))

\* C5: a request rejected for a missing required field, an out-of-range
\* number_of_images or an operation outside the three (or missing) ends in
\* a failure before any file read or write, any remote call and any hook
\* notification.
C5_ValidationHasNoEffects ==
  (pc # "idle" /\ (MissingRequired \/ NumberRejected \/ UnknownOperation)) =>
     /\ Failed
     /\ effects = <<>>

C5_Witness ==
  /\ KeyAvailable /\ Op("generate") /\ NumberRejected /\ RequestedNumber = 5
  /\ FailedWith(NumberOfImagesMsg) /\ effects = <<>>

\* C6: with a key, generate with an output_path fails naming
\* number_of_images exactly when the value is below 1 or above 4; a value
\* in 1..4, or an absent one (1), is accepted as it is: the pre-call
\* notification carries that value, and once the notification has returned
\* the remote call is issued, whatever it then answers.
C6_NumberOfImagesRange ==
  (KeyAvailable /\ Op("generate") /\ Present("output_path") /\ NumberIsInteger) =>
     /\ pc = "done" =>
          (FailureNames("number_of_images")
             <=> (RequestedNumber < 1 \/ RequestedNumber > 4))
     /\ (pc # "idle" /\ RequestedNumber \in 1..4) =>
          /\ pc # "done" \/ Len(effects) >= 1
          /\ Len(effects) >= 1 =>
               /\ effects[1].kind = "emit"
               /\ effects[1].event = "tool.vlm.generate"
               /\ effects[1].payload.number_of_images = RequestedNumber
               /\ effects[1].ok =>
                    \/ pc = "remote" /\ Len(effects) = 1
                    \/ Len(effects) >= 2 /\ effects[2].kind = "remote"

C6_Witness ==
  /\ KeyAvailable /\ Op("generate") /\ Present("output_path")
  /\ input_data.number_of_images = IntV(4)
  /\ pc = "done" /\ Len(effects) >= 2
  /\ effects[2].kind = "remote" /\ ~effects[2].ok

\* C7: with a key, compare given exactly one of image1_path / image2_path
\* fails with a message that names the missing field, and generate without
\* output_path fails with a message that names output_path.
C7_MissingFieldNamed ==
  (KeyAvailable /\ pc # "idle") =>
     /\ (Op("compare") /\ Present("image1_path") /\ ~Present("image2_path"))
          => FailureNames("image2_path")
     /\ (Op("compare") /\ ~Present("image1_path") /\ Present("image2_path"))
          => FailureNames("image1_path")
     /\ (Op("generate") /\ ~Present("output_path"))
          => FailureNames("output_path")

C7_Witness ==
  /\ KeyAvailable /\ Op("compare")
  /\ Present("image1_path") /\ input_data.image2_path = Str(<<>>)
  /\ FailureNames("image2_path")

\* the image parts of the response, in the order the provider returned them
ImageParts == SelectSeq(response.parts, LAMBDA q : q.inline_data # None)
Min(a, b) == IF a <= b THEN a ELSE b

\* e is p with "_k" put in front of p's extension: p splits after i tokens
\* into a head and its extension (empty when the final name has no dot past
\* its first token, else the last dot of the name and what follows it)
SplitsAtExtension(p, i) ==
  LET rest == SubSeq(p, i + 1, Len(p))
  IN  /\ \A j \in 1..Len(rest) : rest[j] # "/"
      /\ \/ /\ rest = <<>>
            /\ \A j \in 1..Len(p) :
                 (p[j] = "." /\ \A l \in j..Len(p) : p[l] # "/")
                   => (j = 1 \/ p[j-1] = "/")
         \/ /\ Len(rest) >= 2 /\ rest[1] = "."
            /\ \A j \in 2..Len(rest) : rest[j] # "."
            /\ i >= 1 /\ p[i] # "/"
InsertedBeforeExtension(p, k, e) ==
  \E i \in 0..Len(p) :
     /\ SplitsAtExtension(p, i)
     /\ e = SubSeq(p, 1, i) \o <<"_", Digit(k)>> \o SubSeq(p, i + 1, Len(p))

\* a generate call whose provider response holds at least one image part
GenerateAnswered == pc = "done" /\ Op("generate") /\ Len(ImageParts) >= 1
AllWritesSucceeded ==
  \A i \in 1..Len(effects) : effects[i].kind = "write" => effects[i].ok

GenerateOutcome ==
  LET n == RequestedNumber
      k == Min(n, Len(ImageParts))
      out == _resolve_path(input_data.output_path.s)
      writes == EffectsOfKind("write")
  IN  /\ Len(writes) = k
      /\ \A j \in 1..k :
           /\ writes[j].ok
           /\ writes[j].data = ImageParts[j].inline_data.data
           /\ n = 1 => writes[j].path = out
           /\ n > 1 => InsertedBeforeExtension(out, j, writes[j].path)
      /\ Returned /\ result.success
      /\ result.output.generated_images = [j \in 1..k |-> writes[j].path]
      /\ result.output.count = k
      /\ 1 <= result.output.count /\ result.output.count <= n

C9_FailureNotified ==
  (Failed /\ (\/ StartsWith(result.output.s, "Image file not found:")
              \/ StartsWith(result.output.s, "VLM request failed:")
              \/ result.output.s = NoImagesMsg)) =>
     \E i \in 1..Len(effects) :
        /\ effects[i].kind = "emit" /\ effects[i].event = "tool.vlm.error"
        /\ effects[i].payload.error = result.output.s

\* C10: in analyze and compare (taken here with a sink that does not fail),
\* a read of an image file that fails, on either file, ends in a failure
\* "Image file not found: ..." with no remote call, and a failure
\* "VLM request failed: ..." is reported only for a remote call that raised.
C10_FileFailureIsNotFound ==
  (pc = "done" /\ ~SinkFailed /\ (Op("analyze") \/ Op("compare"))) =>
     /\ (\E i \in 1..Len(effects) : effects[i].kind = "read" /\ ~effects[i].ok) =>
          /\ Failed
          /\ StartsWith(result.output.s, "Image file not found:")
          /\ EffectsOfKind("remote") = <<>>
     /\ (Failed /\ StartsWith(result.output.s, "VLM request failed:")) =>
          \E i \in 1..Len(effects) : effects[i].kind = "remote" /\ ~effects[i].ok

(* ------------------------- path resolution ----------------------------- *)
\* what the rule asks of the resolution r of the path string p, given the
\* working_dir of the configuration
ResolvedAsRuled(p, r) ==
  LET expanded == expanduser(p)
  IN  /\ (Len(expanded) >= 1 /\ expanded[1] = "/") => r = expanded
      /\ ~(Len(expanded) >= 1 /\ expanded[1] = "/") =>
           IF Truthy(config.working_dir)
           THEN r = config.working_dir.s \o <<"/">> \o expanded
           ELSE r = expanded

\* the pre-call notification, which carries every path the call resolved
PreCall ==
  IF Len(effects) >= 1 /\ effects[1].kind = "emit"
  THEN effects[1]
  ELSE [kind |-> "emit", event |-> "none", payload |-> [none |-> TRUE], ok |-> TRUE]

\* C11: path resolution is a function of the path string and working_dir
\* alone: after home expansion an absolute path comes back unchanged
\* whatever working_dir is, a relative path is joined under a configured
\* working_dir and comes back as it is without one; every later use of the
\* path in the same call (the file opened, the file written) is that same
\* resolution, and resolving leaves the adapter's working_dir as configured.
C11_PathResolution ==
  /\ working_dir = config.working_dir
  /\ PreCall.event = "tool.vlm.analyze" =>
       /\ ResolvedAsRuled(input_data.image_path.s, PreCall.payload.image_path)
       /\ \A i \in 1..Len(effects) :
            effects[i].kind = "read" => effects[i].path = PreCall.payload.image_path
  /\ PreCall.event = "tool.vlm.compare" =>
       /\ ResolvedAsRuled(input_data.image1_path.s, PreCall.payload.image1_path)
       /\ ResolvedAsRuled(input_data.image2_path.s, PreCall.payload.image2_path)
       /\ \A i \in 1..Len(effects) :
            effects[i].kind = "read" =>
               effects[i].path = IF i = 2 THEN PreCall.payload.image1_path
                                 ELSE PreCall.payload.image2_path
  /\ PreCall.event = "tool.vlm.generate" =>
       /\ ResolvedAsRuled(input_data.output_path.s, PreCall.payload.output_path)
       /\ \A i \in 1..Len(effects) :
            (effects[i].kind = "write" /\ RequestedNumber = 1) =>
               effects[i].path = PreCall.payload.output_path

\* an absolute path and a home path, both left alone by a configured
\* working_dir, and both files opened
C11_Witness ==
  /\ Truthy(config.working_dir) /\ PreCall.event = "tool.vlm.compare"
  /\ PreCall.payload.image1_path = AbsPng
  /\ PreCall.payload.image2_path = <<"/", "home", "/", "u", "/", "b", ".", "jpg">>
  /\ Len(EffectsOfKind("read")) = 2

(* --------------------------- order of events --------------------------- *)
\* a request that passes the key gate and validation
PassesValidation ==
  /\ KeyAvailable
  /\ ~(MissingRequired \/ NumberRejected \/ UnknownOperation)
  /\ Op("generate") => NumberIsInteger

\* the place of an interaction in the order of one call
Stage(e) ==
  CASE e.kind = "emit" /\ e.event # "tool.vlm.error" -> 1
    [] e.kind = "read" -> 2
    [] e.kind = "remote" -> 3
    [] e.kind = "write" -> 4
    [] OTHER -> 5

EventOfOperation ==
  IF Op("analyze") THEN "tool.vlm.analyze"
  ELSE IF Op("compare") THEN "tool.vlm.compare" ELSE "tool.vlm.generate"

ReadsExpected == IF Op("analyze") THEN 1 ELSE IF Op("compare") THEN 2 ELSE 0

\* C12: in a call that passed the key gate and validation the interactions
\* come in the order pre-call notification (exactly one, named after the
\* operation), file reads (analyze, compare), the remote call, file writes
\* (generate), return; there is at most one remote call, a failed read or
\* remote call or write is followed by nothing but the error notification
\* (no retry), no file is written unless the remote call returned, and a
\* call that returns a success has gone through every one of its steps.
C12_EventOrder ==
  (PassesValidation /\ pc # "idle") =>
     /\ pc = "emit_pre" <=> effects = <<>>
     /\ effects # <<>> =>
          /\ effects[1].kind = "emit" /\ effects[1].event = EventOfOperation
          /\ \A i \in 2..Len(effects) : Stage(effects[i]) > 1
     /\ \A i \in 1..Len(effects) : \A j \in (i+1)..Len(effects) :
          Stage(effects[i]) <= Stage(effects[j])
     /\ Len(EffectsOfKind("remote")) <= 1
     /\ Len(EffectsOfKind("read")) <= ReadsExpected
     /\ \A i \in 1..Len(effects) :
          (~effects[i].ok /\ i < Len(effects)) =>
             /\ i + 1 = Len(effects)
             /\ Stage(effects[i+1]) = 5
     /\ EffectsOfKind("write") # <<>> =>
          /\ Op("generate")
          /\ EffectsOfKind("remote") # <<>> /\ EffectsOfKind("remote")[1].ok
     /\ EffectsOfKind("remote") # <<>> =>
          /\ Len(EffectsOfKind("read")) = ReadsExpected
          /\ \A i \in 1..Len(effects) : effects[i].kind = "read" => effects[i].ok
     /\ (Returned /\ result.success) =>
          /\ EffectsOfKind("remote") # <<>> /\ EffectsOfKind("remote")[1].ok
          /\ Op("generate") => EffectsOfKind("write") # <<>>
          /\ Stage(effects[Len(effects)]) < 5

\* compare: notification, both reads, the remote call, success
C12_Witness ==
  /\ PassesValidation /\ Op("compare") /\ Returned /\ result.success
  /\ Len(effects) = 4
  /\ effects[1].event = "tool.vlm.compare"
  /\ effects[2].kind = "read" /\ effects[3].kind = "read"
  /\ effects[4].kind = "remote"

(* ---------------------- invocations in flight -------------------------- *)
\* the locals of invocation c, running or not
FrameOf(c) == IF c = current THEN Locals ELSE frames[c]

\* the messages the except clauses build for a failed interaction e
FailureMsgs(e) ==
  CASE e.kind = "emit" -> {HandlerMsg(SinkError)}
    [] e.kind = "read" -> {HandlerMsg(FileNotFoundErrorOf(e.path)),
                           HandlerMsg(PermissionErrorOf(e.path))}
    [] e.kind = "remote" -> {HandlerMsg(RemoteError)}
    [] OTHER -> {HandlerMsg(PermissionErrorOf(e.path))}

\* the results of a call run alone on the adapter, for the request of frame
\* f and the outcomes f met (what its emits, reads, remote call and writes
\* did, and the response it was given)
AloneResults(f) ==
  LET d == f.input_data
      log == f.effects
      pre == ExecutePrefix(d)
      last == log[Len(log)]
      written == [j \in 1..Len(SelectSeq(log, LAMBDA e : e.kind = "write")) |->
                    SelectSeq(log, LAMBDA e : e.kind = "write")[j].path]
  IN  IF pre.next = "done" THEN {pre.result}
      ELSE IF last.kind = "emit" /\ last.event = "tool.vlm.error"
      THEN IF ~last.ok THEN {Raised(SinkError)}
           ELSE IF pre.next = "emit_err" THEN {Fail(pre.error_msg)}
           ELSE {Fail(m) : m \in FailureMsgs(log[Len(log) - 1])}
      ELSE IF IsOp(d, "analyze")
      THEN {ToolResult(TRUE, [t |-> "dict", analysis |-> f.response.text], None)}
      ELSE IF IsOp(d, "compare")
      THEN {ToolResult(TRUE, [t |-> "dict", comparison |-> f.response.text], None)}
      ELSE {GenerateResult(f.response.parts, written)}

\* C13: with several invocations of execute in flight on one adapter,
\* interleaved at their awaited emits, every invocation that has ended has
\* the result it would have had alone for its own request and the outcomes
\* it met, and the adapter's api_key, working_dir and model are as they were
\* set at construction.
C13_Independent ==
  /\ \A c \in Calls :
       FrameOf(c).pc = "done" => FrameOf(c).result \in AloneResults(FrameOf(c))
  /\ api_key = PyOr(config.api_key, env)
  /\ working_dir = config.working_dir
  /\ model = ModelName

\* invocation 1 waits in the emit of its error notification for a file it
\* did not find; invocation 2, started after it, has generated an image;
\* (then invocation 1 goes on and returns its own failure)
C13_Witness ==
  /\ KeyAvailable
  /\ current = 2 /\ pc = "done" /\ result.kind = "ToolResult" /\ result.success
  /\ IsOp(input_data, "generate")
  /\ frames[1].pc = "emit_err"
  /\ IsOp(frames[1].input_data, "analyze")
  /\ StartsWith(frames[1].error_msg, "Image file not found:")
====
